---- MODULE Spec2Model ----
(***************************************************************************)
(* mempool.radio: the beat dispatcher (App), the audio engine              *)
(* (services/audioEngine.ts) and the particle engine (Visualizer).         *)
(*                                                                         *)
(* Units.  Satoshis are integers.  Lengths are integers in hundredths of   *)
(* a pixel, a particle's life in 1/10000.  The flash intensity is an IEEE   *)
(* double, held exactly as << m, e >>: m / 1000 + e / (125 * 2^59).        *)
(* A dispatcher delay and a fee rate are exact rationals <<num, den>>      *)
(* (den = 0 stands for the IEEE values: <<n, 0>> is Infinity, <<0, 0>> is  *)
(* NaN).  Math.random() is a draw in hundredths from a small sample set.   *)
(***************************************************************************)
EXTENDS Integers, Sequences, FiniteSets, TLC

\* ---------------------------------------------------------------- constants
QUEUE_CAP == 5000
QUEUE_TRIM == 500
BEATS == 16
BASE_INTERVAL == 200
MIN_STEP == 40
SWING_BUSY == 18
SWING_CALM == 14
BUSY_QLEN == 100
CONGESTION_DIV == 150
STRONG_PROB == 95
WEAK_PROB == 60
GHOST_PROB == 20
SKANK_PROB == 30
SATS_PER_BTC == 100000000
STEEL_SATS == 10000000
MARIMBA_SATS == 1000000
PLUCK_LOW_SATS == 1000
VSIZE_VALUE == 120
DEFAULT_VALUE == 10000
RADIUS_MIN == 2000
RADIUS_MAX == 18000
RADIUS_BASE == 3000
LIFE_START == 10000
LIFE_DECAY == 7
FLASH_FULL == 1000
FLASH_DECAY == 8
HUE_BLUE == 210
HUE_GREEN == 140
HUE_ORANGE == 45
FEE_BLUE == 1
FEE_GREEN == 50
FEE_ORANGE == 150

\* ------------------------------------------------------------------- bounds
MaxArrivals == 2
MaxTicks == 4
MaxGridTicks == 17
MaxFrames == 2
MaxClicks == 1
MaxBubbles == 2
AgedFrames == 1427
TickCap == 20
MaxHeight == 1
MaxStarts == 2
ConnectCap == 3
MaxLoopHeight == 2
MaxLoopTicks == 3
MaxLoopFrames == 3
FrameCap == 3000

\* JavaScript's undefined, for an optional numeric field of a delivered record
Undefined == -1

\* sample satoshi values: the two sides of the 1 BTC threshold
Values == {99999999, 100000000}

\* Math.random() draws (hundredths) compared against a probability
Rolls == {0, 70, 98}

\* Math.random() draws (hundredths) that scale a velocity
VyRolls == {0, 90}

\* window.innerHeight samples (hundredths of a pixel)
CanvasHeights == {10000}

\* window.innerWidth samples (hundredths of a pixel)
CanvasWidths == {20000}

\* pointer positions of a mousemove (clientX, clientY, hundredths of a pixel)
MouseXs == {0, 10000}
MouseYs == {6000, 9900}

\* values of the sine term of a particle's sideways drift (hundredths of a pixel)
Sways == {-40, 0, 40}

\* records the ingestion collaborator delivers to handleNewTransaction
TxInputs ==
  { [value |-> v, vsize |-> Undefined, fee |-> Undefined, feeRate |-> 5] : v \in Values }
  \cup { [value |-> Undefined, vsize |-> 250, fee |-> 500, feeRate |-> Undefined],
         [value |-> Undefined, vsize |-> Undefined, fee |-> Undefined, feeRate |-> Undefined] }

VARIABLES
  txQueue,        \* App: txQueue.current, records [id, value, feeRate]
  beatIndex,      \* App: beatIndex.current
  timeoutRef,     \* App: delay of the pending dispatcher timeout, <<0, 1>> when none
  isAudioStarted, \* App: state.isAudioStarted
  cbStarted,      \* App: the isAudioStarted captured by the current processNextTransaction
  timers,         \* browser: pending timeouts of the dispatcher, [id, started]
  timeoutId,      \* App: the timeout id in timeoutRef.current, 0 before the first tick
  blockHeight,    \* App: state.lastBlock?.height, 0 while there is no block
  unmounted,      \* App: the component has been unmounted
  ctx,            \* AudioEngine: "none" (this.ctx is null), else this.ctx.state
  masterGain,     \* AudioEngine: this.masterGain is set
  isShakerStarted,\* AudioEngine: this.isShakerStarted
  ctxCount,       \* number of AudioContexts created; this.ctx is the latest
  inits,          \* init() invocations suspended at `await resume()`, by context number
  chimes,         \* history: startup chimes init() has played
  ws,             \* MempoolSocket: id of the socket in this.ws, 0 when it is null
  sockets,        \* browser: the WebSockets not yet closed, [id, state, onclose]
  reconnectTimeout, \* MempoolSocket: this.reconnectTimeout, 0 when it is null
  reconnects,     \* browser: pending reconnect timeouts, [id]
  status,         \* the status last passed to onStatus, "none" before the first
  socketLife,     \* "none" before the socket effect ran, "live", "disconnected"
  connects,       \* history: invocations of connect() (counted up to ConnectCap)
  bubbles,        \* Visualizer: bubblesRef.current
  flashAlpha,     \* Visualizer: flashAlphaRef.current
  canvas,         \* Visualizer: canvasRef.current is attached
  canvasHeight,   \* Visualizer: canvas.height
  canvasWidth,    \* Visualizer: canvas.width
  mouse,          \* Visualizer: mouseRef.current, [x, y] in hundredths of a pixel
  isOverCanvas,   \* Visualizer: isOverCanvasRef.current
  hoveredTx,      \* Visualizer: id of the hoveredTx state, 0 when it is null
  frames,         \* history: number of render passes (counted up to FrameCap)
  rafs,           \* browser: pending animation-frame callbacks, [id, cur]
  animationFrameId, \* Visualizer: animationFrameId of the current effect, 0 before it ran
  effHeight,      \* Visualizer: the blockHeight the current effect ran with
  arrived,        \* history: number of transactions handed to handleNewTransaction
  ticks,          \* history: number of dispatcher ticks (counted up to TickCap)
  dispatched,     \* history: ids forwarded to the engines, in order
  evicted,        \* history: ids removed by the overflow trim
  last,           \* history: what the most recent handler did
  arg,            \* input of the pure function under evaluation
  res             \* its result

vars == << txQueue, beatIndex, timeoutRef, isAudioStarted, cbStarted, timers, timeoutId,
           blockHeight, unmounted, ctx, masterGain, isShakerStarted, ctxCount, inits,
           chimes, ws, sockets, reconnectTimeout, reconnects, status, socketLife, connects,
           bubbles, flashAlpha, canvas, canvasHeight, canvasWidth, mouse, isOverCanvas,
           hoveredTx, frames, rafs, animationFrameId, effHeight, arrived, ticks, dispatched, evicted, last, arg, res >>

timerVars == << timers, timeoutId >>
shellVars == << blockHeight, unmounted >>
rafVars == << rafs, animationFrameId, effHeight >>
appVars == << txQueue, beatIndex, timeoutRef, isAudioStarted, cbStarted, timerVars, shellVars >>
sockVars == << ws, sockets, reconnectTimeout, reconnects, status, socketLife, connects >>
audioVars == << ctx, masterGain, isShakerStarted, ctxCount, inits, chimes >>
hoverVars == << mouse, isOverCanvas, hoveredTx >>
visVars == << bubbles, flashAlpha, canvas, canvasHeight, canvasWidth, frames, rafVars,
             hoverVars >>
histVars == << arrived, ticks, dispatched, evicted >>
fnVars == << arg, res >>

\* ------------------------------------------------------------------ helpers
Min(a, b) == IF a < b THEN a ELSE b
Max(a, b) == IF a > b THEN a ELSE b

\* faulty variant: only a missing field falls back (?? in place of ||)
TruthyDefined(x) == x # Undefined

\* JavaScript truthiness of an optional non-negative number
Truthy(x) == x # Undefined /\ x # 0

\* truthiness of a rational: 0 and NaN are falsy
RatTruthy(r) == r[1] # 0

NoTimer == << 0, 1 >>

\* mouseRef before the first mousemove: { x: -1000, y: -1000 }
NoMouse == [x |-> -100000, y |-> -100000]

NoArg == [fn |-> "none", qLen |-> 0, beat |-> 0]

\* a delivered record with every optional field missing
NoTx == [value |-> Undefined, vsize |-> Undefined, fee |-> Undefined, feeRate |-> Undefined]

NoEvent == [op |-> "none", ctx |-> "none", popped |-> 0, value |-> 0, voices |-> {},
            spawned |-> FALSE, ghost |-> FALSE, beat |-> 0, removed |-> {}, tx |-> NoTx]

Ids(s) == { s[i].id : i \in 1..Len(s) }

\* the id setTimeout or requestAnimationFrame returns: one that no pending
\* callback of S carries (ids are only ever compared for equality)
FreshId(S) ==
  CHOOSE n \in 1..(Cardinality(S) + 1) :
    /\ \A c \in S : c.id # n
    /\ \A m \in 1..(n - 1) : \E c \in S : c.id = m

\* faulty variant: the cleanup leaves the pending timeout alone
ClearTimeoutNoop(S, id) == S

\* clearTimeout(id) and cancelAnimationFrame(id) on the pending callbacks S
ClearTimeout(S, id) == { c \in S : c.id # id }

CancelAnimationFrame(S, id) == { c \in S : c.id # id }

\* the callbacks of S once the effect that scheduled them has been cleaned up
Stale(S) == { [c EXCEPT !.cur = FALSE] : c \in S }

\* floor of the square root by bisection: lo * lo <= n < hi * hi
RECURSIVE SqrtIter(_, _, _)
SqrtIter(n, lo, hi) ==
  IF hi - lo <= 1 THEN lo
  ELSE LET mid == (lo + hi) \div 2
       IN IF mid * mid <= n THEN SqrtIter(n, mid, hi) ELSE SqrtIter(n, lo, mid)

ISqrt(n) == SqrtIter(n, 0, 46340)

\* ------------------------------------------------- App: dispatcher step delay
\* faulty variant: the step multiplied by the congestion factor
CongestionSlowDown(qLen) ==
  IF 2 * (CONGESTION_DIV + qLen) >= 5 * CONGESTION_DIV
  THEN << 2, 5 >>
  ELSE << CONGESTION_DIV, CONGESTION_DIV + qLen >>

\* Math.min(2.5, 1 + qLen / 150) as a rational
CongestionSpeedUp(qLen) ==
  IF 2 * (CONGESTION_DIV + qLen) >= 5 * CONGESTION_DIV
  THEN << 5, 2 >>
  ELSE << CONGESTION_DIV + qLen, CONGESTION_DIV >>

\* the step before the floor: BASE_INTERVAL * swing (or 2 - swing) / speed-up
RawStep(qLen, beat) ==
  LET swing10 == IF qLen > BUSY_QLEN THEN SWING_BUSY ELSE SWING_CALM
      raw10 == IF beat % 2 = 0 THEN BASE_INTERVAL * swing10
                               ELSE BASE_INTERVAL * (20 - swing10)
      c == CongestionSpeedUp(qLen)
  IN << raw10 * c[2], 10 * c[1] >>

\* faulty variant: the floor of 40 forgotten
StepDurationNoFloor(qLen, beat) == RawStep(qLen, beat)

\* Math.max(40, stepDuration)
StepDuration(qLen, beat) ==
  LET s == RawStep(qLen, beat)
  IN IF s[1] < MIN_STEP * s[2] THEN << MIN_STEP, 1 >> ELSE s

\* --------------------------------------------------------------- AudioEngine
\* faulty variant: the steel-drum branch taken from 0.01 BTC up
TierNoMarimba(valueSats) ==
  IF valueSats >= SATS_PER_BTC THEN "whale"
  ELSE IF valueSats >= MARIMBA_SATS THEN "steel"
  ELSE "pluck"

\* faulty variant: the accent on every fourth beat
IsSkankBeatAnyFourth(beatPos) == (beatPos % BEATS) \in {4, 8, 12}

\* DRUM_FREQUENCIES in hundredths of a hertz
DRUM_FREQUENCIES ==
  << 19600, 22000, 24694, 26163, 29366, 32963, 34923, 39200,
     44000, 49388, 52325, 58733, 65925, 69846, 78399, 88000 >>

\* floor(10^7 * 10^(k / 15)) for k = 0..14
Pow10Steps ==
  << 10000000, 11659144, 13593563, 15848931, 18478497, 21544346, 25118864, 29286445,
     34145488, 39810717, 46415888, 54116952, 63095734, 73564225, 85769589 >>

\* Math.log10 of a power of ten
RECURSIVE Log10(_)
Log10(n) == IF n < 10 THEN 0 ELSE 1 + Log10(n \div 10)

\* the largest number of satoshis whose ratio, for the bounds (low, high), is
\* at most j / 15: floor(low * (high / low)^(j / 15))
RatioStep(low, high, j) ==
  LET k == j * (Log10(high) - Log10(low))
      scale == low * 10 ^ (k \div 15)
      step == Pow10Steps[(k % 15) + 1]
  IN IF scale >= Pow10Steps[1] THEN step * (scale \div Pow10Steps[1])
                               ELSE step \div (Pow10Steps[1] \div scale)

\* faulty variant: the ratio not inverted, index = floor(ratio * 15)
FrequencyRising(valueSats, low, high) ==
  LET clampedVal == Max(low, Min(high, valueSats))
      index == IF clampedVal = high THEN Len(DRUM_FREQUENCIES) - 1
               ELSE Cardinality({ j \in 1..(Len(DRUM_FREQUENCIES) - 1) :
                                    clampedVal >= RatioStep(low, high, j) + 1 })
  IN DRUM_FREQUENCIES[index + 1]

\* getFrequencyFromValue for bounds in satoshis.  floor((1 - ratio) * 15) is
\* 15 less the number of j in 0..14 with ratio * 15 > j, and ratio * 15 > j
\* exactly when the clamped value exceeds RatioStep(low, high, j).
getFrequencyFromValue(valueSats, low, high) ==
  LET clampedVal == Max(low, Min(high, valueSats))
      index == (Len(DRUM_FREQUENCIES) - 1)
                 - Cardinality({ j \in 0..(Len(DRUM_FREQUENCIES) - 2) :
                                   clampedVal > RatioStep(low, high, j) })
  IN DRUM_FREQUENCIES[index + 1]

\* the bounds playTransaction passes for each pitched tier below the whale
TierBounds(tier) ==
  IF tier = "steel" THEN << STEEL_SATS, SATS_PER_BTC >>
  ELSE IF tier = "marimba" THEN << MARIMBA_SATS, STEEL_SATS >>
  ELSE << PLUCK_LOW_SATS, MARIMBA_SATS >>

\* the pitched voice playTransaction selects for a positive value
Tier(valueSats) ==
  IF valueSats >= SATS_PER_BTC THEN "whale"
  ELSE IF valueSats >= STEEL_SATS THEN "steel"
  ELSE IF valueSats >= MARIMBA_SATS THEN "marimba"
  ELSE "pluck"

IsSkankBeat(beatPos) == (beatPos % BEATS) \in {4, 12}

\* faulty variant: the guard on the context's state forgotten
PlayTransactionUnguarded(valueSats, beatPos, roll) ==
  (IF IsSkankBeat(beatPos) /\ (valueSats > 0 \/ roll < SKANK_PROB) THEN {"organ"} ELSE {})
  \cup (IF valueSats <= 0 THEN {} ELSE {Tier(valueSats)})

\* the voices one call of playTransaction creates; roll is its Math.random()
PlayTransaction(valueSats, beatPos, roll) ==
  IF ctx # "running" THEN {}
  ELSE (IF IsSkankBeat(beatPos) /\ (valueSats > 0 \/ roll < SKANK_PROB)
        THEN {"organ"} ELSE {})
       \cup (IF valueSats <= 0 THEN {} ELSE {Tier(valueSats)})

\* playStartupChime: guarded by the presence of the context only
PlayStartupChime(c) == IF c = "none" THEN {} ELSE {"chime"}

\* playBlockConfirm: guarded by the presence of the context and the master gain
PlayBlockConfirm ==
  IF ctx = "none" \/ ~masterGain THEN {} ELSE PlayStartupChime(ctx)

\* ---------------------------------------------------------------- Visualizer
\* comparison of two finite rationals with positive denominators
RatLeq(a, b) == a[1] * b[2] <= b[1] * a[2]

RatEq(a, b) == a[1] * b[2] = b[1] * a[2]

\* faulty variant: the last band not held at 0
GetHueNoFloor(f) ==
  LET n == f[1]
      d == f[2]
  IN IF d = 0 THEN << 0, 0 >>
     ELSE IF n <= FEE_BLUE * d THEN << HUE_BLUE, 1 >>
     ELSE IF n <= FEE_GREEN * d THEN << HUE_BLUE * 50 * d - 70 * n, 50 * d >>
     ELSE IF n <= FEE_ORANGE * d
          THEN << HUE_GREEN * 100 * d - 95 * (n - FEE_GREEN * d), 100 * d >>
     ELSE << HUE_ORANGE * 250 * d - 45 * (n - FEE_ORANGE * d), 250 * d >>

\* getHueFromFeeRate on a fee rate n/d; the hue is a rational too.  Every
\* comparison with NaN fails, so NaN ends in Math.max(0, NaN), which is NaN;
\* Infinity ends in Math.max(0, -Infinity), which is 0.
getHueFromFeeRate(f) ==
  LET n == f[1]
      d == f[2]
      last4 == << HUE_ORANGE * 250 * d - 45 * (n - FEE_ORANGE * d), 250 * d >>
  IN IF d = 0 THEN (IF n = 0 THEN << 0, 0 >> ELSE << 0, 1 >>)
     ELSE IF n <= FEE_BLUE * d THEN << HUE_BLUE, 1 >>
     ELSE IF n <= FEE_GREEN * d THEN << HUE_BLUE * 50 * d - 70 * n, 50 * d >>
     ELSE IF n <= FEE_ORANGE * d
          THEN << HUE_GREEN * 100 * d - 95 * (n - FEE_GREEN * d), 100 * d >>
     ELSE IF last4[1] < 0 THEN << 0, 1 >> ELSE last4

\* faulty variant: the upper clamp of 180 forgotten
RadiusNoCap(valueSats) == Max(RADIUS_MIN, ISqrt(3 * valueSats) + RADIUS_BASE)

\* faulty variant: the base of 30 forgotten
RadiusNoBase(valueSats) == Max(RADIUS_MIN, Min(RADIUS_MAX, ISqrt(3 * valueSats)))

Radius(valueSats) ==
  Max(RADIUS_MIN, Min(RADIUS_MAX, ISqrt(3 * valueSats) + RADIUS_BASE))

\* faulty variant: exactly 1 BTC not a whale
IsWhaleStrict(valueSats) == valueSats > SATS_PER_BTC

IsWhale(valueSats) == valueSats >= SATS_PER_BTC

\* the Math.random() (in hundredths) of a particle's column and of its sideways speed
MidRoll == 50

\* the particle addTransaction pushes; u is the Math.random() of its velocity
NewBubble(tx, u) ==
  LET radius == Radius(tx.value)
      isWhale == IsWhale(tx.value)
  IN [ id |-> tx.id,
       x |-> (MidRoll * canvasWidth) \div 100,
       y |-> canvasHeight + radius * 2,
       radius |-> radius,
       vx |-> ((MidRoll - 50) * 70) \div 100,
       vy |-> IF isWhale THEN -((u * 20) \div 100 + 10) ELSE -((u * 150) \div 100 + 40),
       baseHue |-> getHueFromFeeRate(tx.feeRate),
       life |-> LIFE_START,
       value |-> tx.value,
       feeRate |-> tx.feeRate,
       isWhale |-> isWhale ]

\* addTransaction: nothing is pushed without a canvas
AddTransaction(bs, tx, u) == IF ~canvas THEN bs ELSE Append(bs, NewBubble(tx, u))

\* splice(i, 1)
RemoveAt(s, i) == SubSeq(s, 1, i - 1) \o SubSeq(s, i + 1, Len(s))

\* faulty variant: the decrement of life forgotten
MovedNoDecay(b) == [b EXCEPT !.y = b.y + b.vy]

\* b.x += b.vx + Math.sin(time * 0.5 + b.pulseOffset) * 0.4, s being the
\* value of the sine term in hundredths of a pixel
Swayed(b, s) == [b EXCEPT !.x = b.x + b.vx + s]

\* a particle's update: drift and decay
Moved(b) == [b EXCEPT !.y = b.y + b.vy, !.life = b.life - LIFE_DECAY]

\* faulty variant: the test of the top edge forgotten
IsGoneLifeOnly(b) == b.life <= 0

\* the removal test at the end of a particle's update
IsGone(b) == b.life <= 0 \/ b.y + b.radius * 3 < 0

\* 2^n modulo m
RECURSIVE Pow2Mod(_, _)
Pow2Mod(n, m) ==
  IF n = 0 THEN 1 % m
  ELSE IF n % 2 = 1 THEN (2 * Pow2Mod(n - 1, m)) % m
  ELSE LET h == Pow2Mod(n \div 2, m) IN (h * h) % m

\* 0.008 is 1/125, and a double in [2^-7, 2^-6) is a multiple of 2^-59
FlashQuanta == FLASH_FULL \div FLASH_DECAY

\* 125 * (the double nearest to 0.008) - 1, in units of 2^-59
DecayErr ==
  LET r == Pow2Mod(59, FlashQuanta)
  IN IF 2 * r > FlashQuanta THEN FlashQuanta - r ELSE -r

\* the low bits (below 2^-59) a double of about m / 1000 cannot hold
DropBits(m) ==
  IF 2 * m >= FLASH_FULL THEN 6
  ELSE IF 4 * m >= FLASH_FULL THEN 5
  ELSE IF 8 * m >= FLASH_FULL THEN 4
  ELSE IF 16 * m >= FLASH_FULL THEN 3
  ELSE IF 32 * m >= FLASH_FULL THEN 2
  ELSE IF 64 * m >= FLASH_FULL THEN 1
  ELSE 0

\* flashAlphaRef.current > 0
FlashPositive(f) == f[1] > 0 \/ (f[1] = 0 /\ f[2] > 0)

\* flashAlphaRef.current -= 0.008 in IEEE double arithmetic: the exact
\* difference, rounded to the nearest double (ties to even)
FlashMinus(f) ==
  LET m == f[1] - FLASH_DECAY
      e == f[2] - DecayErr
      bits == DropBits(m)
      unit == 2 ^ bits
      modulus == FlashQuanta * 2 * unit
      n == (((m \div FLASH_DECAY) * (Pow2Mod(58 - bits, FlashQuanta) * 2 * unit) + e)
              % modulus) \div FlashQuanta
      low == n % unit
      odd == n \div unit
      by == IF 2 * low < unit \/ (2 * low = unit /\ odd = 0) THEN -low ELSE unit - low
  IN IF bits = 0 THEN << m, e >> ELSE << m, e + FlashQuanta * by >>

\* faulty variant: the decrement not guarded by the test for a positive flash
FlashStepUnguarded(f) == FlashMinus(f)

\* the flash overlay's part of a render pass
FlashStep(f) == IF FlashPositive(f) THEN FlashMinus(f) ELSE f

\* faulty variant: the loop runs from index 1 upwards while removing in place
RECURSIVE ForwardLoop(_, _, _)
ForwardLoop(bs, sway, i) ==
  IF i > Len(bs) THEN bs
  ELSE LET moved == [bs[i] EXCEPT !.x = bs[i].x + bs[i].vx + sway[i],
                                  !.y = bs[i].y + bs[i].vy, !.life = bs[i].life - LIFE_DECAY]
           upd == [bs EXCEPT ![i] = moved]
       IN IF moved.life <= 0 \/ moved.y + moved.radius * 3 < 0
          THEN ForwardLoop(SubSeq(upd, 1, i - 1) \o SubSeq(upd, i + 1, Len(upd)), sway, i + 1)
          ELSE ForwardLoop(upd, sway, i + 1)

RenderLoopForward(bs, sway, i) == ForwardLoop(bs, sway, 1)

\* the particle loop of render, from index i down to 1, removing in place
RECURSIVE RenderLoop(_, _, _)
RenderLoop(bs, sway, i) ==
  IF i = 0 THEN bs
  ELSE LET moved == Moved(Swayed(bs[i], sway[i]))
           upd == [bs EXCEPT ![i] = moved]
       IN IF IsGone(moved) THEN RenderLoop(RemoveAt(upd, i), sway, i - 1)
                           ELSE RenderLoop(upd, sway, i - 1)

\* Math.sqrt(dx * dx + dy * dy) < b.radius for the pointer at m
UnderPointer(b, m) ==
  LET dx == m.x - b.x
      dy == m.y - b.y
  IN /\ dx < b.radius /\ -dx < b.radius
     /\ dy < b.radius /\ -dy < b.radius
     /\ dx * dx + dy * dy < b.radius * b.radius

\* faulty variant: the first particle found is kept
RECURSIVE HoverLoopFirst(_, _, _, _)
HoverLoopFirst(bs, sway, i, currentHover) ==
  IF i = 0 THEN currentHover
  ELSE HoverLoopFirst(bs, sway, i - 1,
                      IF currentHover = 0 /\ UnderPointer(Moved(Swayed(bs[i], sway[i])), mouse)
                      THEN bs[i].id ELSE currentHover)

\* the hover test of the particle loop, from index i down to 1: every
\* particle under the pointer replaces currentHover
RECURSIVE HoverLoop(_, _, _, _)
HoverLoop(bs, sway, i, currentHover) ==
  IF i = 0 THEN currentHover
  ELSE HoverLoop(bs, sway, i - 1, IF UnderPointer(Moved(Swayed(bs[i], sway[i])), mouse)
                                  THEN bs[i].id ELSE currentHover)

\* the sine term at zero for every particle
NoSway == [i \in 1..Len(bubbles) |-> 0]

\* one animation frame.  waiting are the animation frames still pending when
\* the pass starts, cur tells whether the render that runs is the one of the
\* current effect: it ends by requesting the next frame.
render(waiting, cur, sway) ==
  LET after == RenderLoop(bubbles, sway, Len(bubbles))
      currentHover == HoverLoop(bubbles, sway, Len(bubbles), 0)
      id == FreshId(waiting)
  IN /\ bubbles' = after
     /\ hoveredTx' = IF isOverCanvas THEN currentHover ELSE 0
     /\ rafs' = waiting \cup {[id |-> id, cur |-> cur]}
     /\ animationFrameId' = IF cur THEN id ELSE animationFrameId
     /\ flashAlpha' = FlashStep(flashAlpha)
     /\ frames' = IF frames < FrameCap THEN frames + 1 ELSE frames
     /\ last' = [NoEvent EXCEPT !.op = "render", !.ctx = ctx,
                                !.removed = { Moved(Swayed(bubbles[i], sway[i])) :
                                    i \in { j \in 1..Len(bubbles) :
                                               bubbles[j].id \notin Ids(after) } }]
     /\ UNCHANGED << sockVars, canvas, canvasHeight, canvasWidth, mouse, isOverCanvas, appVars,
                     audioVars, histVars, fnVars >>

\* ----------------------------------------------------------------------- App
\* faulty variant: the cap tested one entry late
TrimLate(q) == IF Len(q) > QUEUE_CAP + 1 THEN SubSeq(q, QUEUE_TRIM + 1, Len(q)) ELSE q

\* faulty variant: the newest 500 entries dropped instead of the oldest
TrimNewest(q) == IF Len(q) > QUEUE_CAP THEN SubSeq(q, 1, Len(q) - QUEUE_TRIM) ELSE q

\* faulty variant: pop() instead of shift()
ShiftNewest(q) == << q[Len(q)], SubSeq(q, 1, Len(q) - 1) >>

\* faulty variant: the first element read but left in the queue
ShiftKeep(q) == << Head(q), q >>

\* faulty variant: the modulo forgotten
NextBeatNoWrap(b) == b + 1

\* faulty variant: the ghost cue on odd beats too
GhostCueAnyBeat(shouldPlay, isEvenBeat, started, ghost) ==
  ~shouldPlay /\ started /\ ghost < GHOST_PROB

\* faulty variant: the beat index left where it is
NextBeatHold(b) == b

\* faulty variant: the trigger never succeeds
ProbabilityNever(beat) == 0

\* the chance (hundredths) that a tick on this beat pops: downbeats are favoured
Probability(beat) == IF beat % 4 = 0 THEN STRONG_PROB ELSE WEAK_PROB

\* the else-branch of the tick: a ghost note on an even beat once audio started
GhostCue(shouldPlay, isEvenBeat, started, ghost) ==
  ~shouldPlay /\ isEvenBeat /\ started /\ ghost < GHOST_PROB

\* the overflow trim: splice(0, 500) once the length exceeds 5000
Trim(q) == IF Len(q) > QUEUE_CAP THEN SubSeq(q, QUEUE_TRIM + 1, Len(q)) ELSE q

\* shift(): << the removed first element, the rest >>
Shift(q) == << Head(q), Tail(q) >>

\* the increment of the rhythm grid
NextBeat(b) == (b + 1) % BEATS

\* handleNewTransaction: default the record, push it, trim on overflow
handleNewTransaction(tx) ==
  LET value == IF Truthy(tx.value) THEN tx.value
               ELSE IF Truthy(tx.vsize) THEN tx.vsize * VSIZE_VALUE ELSE DEFAULT_VALUE
      feeRate == IF Truthy(tx.feeRate) THEN << tx.feeRate, 1 >>
                 ELSE IF Truthy(tx.fee)
                      THEN (IF tx.vsize = Undefined THEN << 0, 0 >> ELSE << tx.fee, tx.vsize >>)
                      ELSE << 1, 1 >>
      pushed == Append(txQueue, [id |-> arrived + 1, value |-> value, feeRate |-> feeRate])
      kept == Trim(pushed)
  IN /\ txQueue' = kept
     /\ evicted' = IF Len(kept) = Len(pushed) THEN evicted
                   ELSE evicted \cup (Ids(pushed) \ Ids(kept))
     /\ arrived' = arrived + 1
     /\ last' = [NoEvent EXCEPT !.op = "push", !.ctx = ctx, !.tx = tx]
     /\ UNCHANGED << sockVars, beatIndex, timeoutRef, isAudioStarted, cbStarted, timerVars, shellVars,
                     ticks, dispatched, audioVars, visVars, fnVars >>

\* processNextTransaction.  waiting are the timeouts still pending when it
\* runs, started is the isAudioStarted of the closure that runs; play, ghost and
\* skank are the draws of its three Math.random() tests and u the draw of the
\* spawned particle's velocity.
processNextTransaction(waiting, started, play, ghost, skank, u) ==
  LET qLen == Len(txQueue)
      id == FreshId(waiting)
      isEvenBeat == beatIndex % 2 = 0
      stepDuration == StepDuration(qLen, beatIndex)
      probability == Probability(beatIndex)
      shouldPlay == qLen > 0 /\ play < probability
      isGhost == GhostCue(shouldPlay, isEvenBeat, started, ghost)
      shifted == Shift(txQueue)
      tx == shifted[1]
      value == IF tx.value # 0 THEN tx.value ELSE 0
      feeRate == IF RatTruthy(tx.feeRate) THEN tx.feeRate ELSE << 1, 1 >>
      spawn == [id |-> tx.id, value |-> value, feeRate |-> feeRate]
  IN /\ IF shouldPlay
        THEN /\ txQueue' = shifted[2]
             /\ dispatched' = Append(dispatched, tx.id)
             /\ bubbles' = AddTransaction(bubbles, spawn, u)
             /\ last' = [NoEvent EXCEPT !.op = "tick", !.ctx = ctx, !.popped = tx.id,
                           !.value = value, !.beat = beatIndex,
                           !.voices = PlayTransaction(value, beatIndex, skank),
                           !.spawned = canvas]
        ELSE /\ UNCHANGED << txQueue, dispatched, bubbles >>
             /\ last' = [NoEvent EXCEPT !.op = "tick", !.ctx = ctx, !.beat = beatIndex,
                           !.ghost = isGhost,
                           !.voices = IF isGhost THEN PlayTransaction(0, beatIndex, skank)
                                      ELSE {}]
     /\ beatIndex' = NextBeat(beatIndex)
     /\ timeoutRef' = stepDuration
     /\ timers' = waiting \cup {[id |-> id, started |-> started]}
     /\ timeoutId' = id
     /\ cbStarted' = started
     /\ ticks' = IF ticks < TickCap THEN ticks + 1 ELSE ticks
     /\ UNCHANGED << sockVars, isAudioStarted, shellVars, arrived, evicted, flashAlpha, canvas,
                     canvasHeight, canvasWidth, hoverVars, frames, rafVars, audioVars,
                     fnVars >>

\* handleNewBlock: the block of height h becomes lastBlock; chime and flash
handleNewBlock(h) ==
  /\ blockHeight' = h
  /\ last' = [NoEvent EXCEPT !.op = "block", !.ctx = ctx, !.voices = PlayBlockConfirm]
  /\ flashAlpha' = << FLASH_FULL, 0 >>
  /\ UNCHANGED << sockVars, txQueue, beatIndex, timeoutRef, isAudioStarted, cbStarted, timerVars,
                  unmounted, bubbles, canvas, canvasHeight, canvasWidth, hoverVars,
                  frames, rafVars, audioVars, histVars, fnVars >>

\* startAudio up to the first suspension point of AudioEngine.init.  s is the
\* state in which the browser creates the context.
startAudio(s) ==
  IF ctx = "running"
  THEN /\ isAudioStarted' = TRUE
       /\ last' = [NoEvent EXCEPT !.op = "init", !.ctx = ctx]
       /\ UNCHANGED << audioVars >>
  ELSE /\ ctx' = s
       /\ masterGain' = TRUE
       /\ ctxCount' = ctxCount + 1
       /\ IF s = "suspended"
          THEN /\ inits' = inits \cup {ctxCount + 1}
               /\ last' = [NoEvent EXCEPT !.op = "init", !.ctx = s]
               /\ UNCHANGED << isShakerStarted, isAudioStarted, chimes >>
          ELSE /\ last' = [NoEvent EXCEPT !.op = "init", !.ctx = s,
                             !.voices = PlayStartupChime(s)]
               /\ chimes' = chimes + Cardinality(PlayStartupChime(s))
               /\ isShakerStarted' = TRUE
               /\ isAudioStarted' = TRUE
               /\ UNCHANGED inits

\* the rest of init and of startAudio once resume() of context c has settled
resumed(c) ==
  LET now == IF c = ctxCount THEN "running" ELSE ctx
  IN /\ ctx' = now
     /\ inits' = inits \ {c}
     /\ last' = [NoEvent EXCEPT !.op = "init", !.ctx = now, !.voices = PlayStartupChime(now)]
     /\ chimes' = chimes + Cardinality(PlayStartupChime(now))
     /\ isShakerStarted' = TRUE
     /\ isAudioStarted' = TRUE
     /\ UNCHANGED << masterGain, ctxCount >>

\* ------------------------------------------------------------- MempoolSocket
\* faulty variant: no reconnect is ever scheduled
ScheduleReconnectNever(timeout, pending) == << timeout, pending >>

\* scheduleReconnect, on this.reconnectTimeout and the pending timeouts: the
\* new values of the two
ScheduleReconnect(timeout, pending) ==
  IF timeout = 0
  THEN LET id == FreshId(pending) IN << id, pending \cup {[id |-> id]} >>
  ELSE << timeout, pending >>

\* ws.close() on the socket id of S: a closed socket is no longer in S
CloseSocket(S, id) ==
  { IF c.id = id THEN [c EXCEPT !.state = "closing"] ELSE c : c \in S }

\* faulty variant: the close handler left attached
DetachAndCloseKeepHandler(S, id) == CloseSocket(S, id)

\* ws.onclose = null; ws.close()
DetachAndClose(S, id) ==
  CloseSocket({ IF c.id = id THEN [c EXCEPT !.onclose = FALSE] ELSE c : c \in S }, id)

\* connect().  waiting are the reconnect timeouts pending when it is invoked,
\* thrown tells whether the WebSocket constructor throws.
connect(waiting, thrown) ==
  LET pending == ClearTimeout(waiting, reconnectTimeout)
      id == FreshId(sockets)
      again == ScheduleReconnect(0, pending)
  IN /\ status' = "connecting"
     /\ connects' = IF connects < ConnectCap THEN connects + 1 ELSE connects
     /\ IF thrown
        THEN /\ reconnectTimeout' = again[1]
             /\ reconnects' = again[2]
             /\ UNCHANGED << ws, sockets >>
        ELSE /\ reconnectTimeout' = 0
             /\ reconnects' = pending
             /\ ws' = id
             /\ sockets' = sockets \cup {[id |-> id, state |-> "connecting", onclose |-> TRUE]}
     /\ last' = [NoEvent EXCEPT !.op = IF thrown THEN "throw" ELSE "connect", !.ctx = ctx]

\* the open event of socket c: onopen
onopen(c) ==
  /\ sockets' = (sockets \ {c}) \cup {[c EXCEPT !.state = "open"]}
  /\ status' = "connected"
  /\ last' = [NoEvent EXCEPT !.op = "open", !.ctx = ctx]
  /\ UNCHANGED << ws, reconnectTimeout, reconnects, socketLife, connects >>

\* the close event of socket c, after the error event when the connection
\* failed: onerror closes the socket in this.ws, onclose reports and reschedules
closed(c, failed) ==
  LET rest == sockets \ {c}
      again == ScheduleReconnect(reconnectTimeout, reconnects)
  IN /\ sockets' = IF failed THEN CloseSocket(rest, ws) ELSE rest
     /\ IF c.onclose
        THEN /\ status' = "disconnected"
             /\ reconnectTimeout' = again[1]
             /\ reconnects' = again[2]
        ELSE UNCHANGED << status, reconnectTimeout, reconnects >>
     /\ last' = [NoEvent EXCEPT !.op = "close", !.ctx = ctx]
     /\ UNCHANGED << ws, socketLife, connects >>

\* disconnect()
disconnect ==
  /\ status' = "disconnected"
  /\ reconnects' = ClearTimeout(reconnects, reconnectTimeout)
  /\ reconnectTimeout' = 0
  /\ sockets' = IF ws # 0 THEN DetachAndClose(sockets, ws) ELSE sockets
  /\ ws' = 0
  /\ socketLife' = "disconnected"
  /\ UNCHANGED connects

\* ------------------------------------------------------------------- actions
\* the socket effect on mount: a MempoolSocket is made and connected
SocketEffect ==
  /\ ~unmounted
  /\ socketLife = "none"
  /\ \E thrown \in BOOLEAN : connect(reconnects, thrown)
  /\ socketLife' = "live"
  /\ UNCHANGED << appVars, audioVars, visVars, histVars, fnVars >>

\* a pending reconnect timeout fires
ReconnectFires ==
  /\ \E t \in reconnects : \E thrown \in BOOLEAN : connect(reconnects \ {t}, thrown)
  /\ UNCHANGED << socketLife, appVars, audioVars, visVars, histVars, fnVars >>

\* a connecting socket is connected
SocketOpens ==
  /\ \E c \in sockets : c.state = "connecting" /\ onopen(c)
  /\ UNCHANGED << appVars, audioVars, visVars, histVars, fnVars >>

\* a message with one transaction arrives on a socket that is not closed: onmessage
SocketMessage ==
  /\ arrived < MaxArrivals
  /\ \E c \in sockets : c.state \in {"open", "closing"}
  /\ \E tx \in TxInputs : handleNewTransaction(tx)

\* a socket is closed: by the peer or after close(), or because the
\* connection failed; a socket that never opened can only fail
SocketCloses ==
  /\ \E c \in sockets : \E failed \in BOOLEAN :
       /\ c.state = "connecting" => failed
       /\ closed(c, failed)
  /\ UNCHANGED << appVars, audioVars, visVars, histVars, fnVars >>

Ingest ==
  /\ timeoutRef # NoTimer
  /\ arrived < MaxArrivals
  /\ \E tx \in TxInputs : handleNewTransaction(tx)

\* The Math.random() draws one tick consumes, as << play, ghost, skank, u >>:
\* a test that short-circuits draws nothing, and its slot is 0.
TickDraws(started) ==
  LET qLen == Len(txQueue)
      probability == Probability(beatIndex)
      Plays(play) == qLen > 0 /\ play < probability
      Ghosts(play, ghost) ==
        ~Plays(play) /\ beatIndex % 2 = 0 /\ started /\ ghost < GHOST_PROB
  IN { d \in (IF qLen > 0 THEN Rolls ELSE {0}) \X Rolls \X Rolls \X VyRolls :
         /\ (Plays(d[1]) \/ beatIndex % 2 # 0 \/ ~started) => d[2] = 0
         /\ ~(Ghosts(d[1], d[2]) /\ ctx = "running" /\ IsSkankBeat(beatIndex)) => d[3] = 0
         /\ ~(Plays(d[1]) /\ canvas) => d[4] = 0 }

\* the dispatcher effect: on mount and whenever processNextTransaction changes
\* the cleanup of the previous run of the effect, then its body
DispatcherEffect ==
  /\ ~unmounted
  /\ timeoutRef = NoTimer \/ cbStarted # isAudioStarted
  /\ ticks < MaxTicks
  /\ \E d \in TickDraws(isAudioStarted) :
       processNextTransaction(ClearTimeout(timers, timeoutId), isAudioStarted,
                              d[1], d[2], d[3], d[4])

\* a pending timeout fires: the closure that scheduled it runs
TimerFires ==
  /\ ticks < MaxTicks
  /\ \E t \in timers : \E d \in TickDraws(t.started) :
       processNextTransaction(timers \ {t}, t.started, d[1], d[2], d[3], d[4])

\* the block after lastBlock, or lastBlock once more
Block ==
  /\ timeoutRef # NoTimer
  /\ \E h \in {blockHeight, blockHeight + 1} \cap 1..MaxHeight : handleNewBlock(h)

StartAudioClick ==
  /\ timeoutRef # NoTimer
  /\ ~isAudioStarted
  /\ ctxCount < MaxClicks
  /\ \E s \in {"suspended", "running"} : startAudio(s)
  /\ UNCHANGED << sockVars, txQueue, beatIndex, timeoutRef, cbStarted, timerVars, shellVars, visVars,
                  histVars, fnVars >>

ResumeSettles ==
  /\ \E c \in inits : resumed(c)
  /\ UNCHANGED << sockVars, txQueue, beatIndex, timeoutRef, cbStarted, timerVars, shellVars, visVars,
                  histVars, fnVars >>

\* the Visualizer effect, on mount and whenever blockHeight has changed: the
\* cleanup of its previous run, then a first render pass
RenderEffect ==
  /\ ~unmounted
  /\ animationFrameId = 0 \/ effHeight # blockHeight
  /\ frames < MaxFrames
  /\ render(Stale(CancelAnimationFrame(rafs, animationFrameId)), TRUE, NoSway)
  /\ effHeight' = blockHeight

\* a pending animation frame fires
Frame ==
  /\ frames < MaxFrames
  /\ \E f \in rafs : render(rafs \ {f}, f.cur, NoSway)
  /\ effHeight' = effHeight

Init ==
  /\ txQueue = << >>
  /\ beatIndex = 0
  /\ timeoutRef = NoTimer
  /\ isAudioStarted = FALSE
  /\ cbStarted = FALSE
  /\ timers = {}
  /\ timeoutId = 0
  /\ blockHeight = 0
  /\ unmounted = FALSE
  /\ rafs = {}
  /\ animationFrameId = 0
  /\ effHeight = 0
  /\ ctx = "none"
  /\ masterGain = FALSE
  /\ isShakerStarted = FALSE
  /\ ctxCount = 0
  /\ inits = {}
  /\ chimes = 0
  /\ ws = 0
  /\ sockets = {}
  /\ reconnectTimeout = 0
  /\ reconnects = {}
  /\ status = "none"
  /\ socketLife = "none"
  /\ connects = 0
  /\ bubbles = << >>
  /\ flashAlpha = << 0, 0 >>
  /\ canvas = TRUE
  /\ canvasHeight \in CanvasHeights
  /\ canvasWidth \in CanvasWidths
  /\ mouse = NoMouse
  /\ isOverCanvas = FALSE
  /\ hoveredTx = 0
  /\ frames = 0
  /\ arrived = 0
  /\ ticks = 0
  /\ dispatched = << >>
  /\ evicted = {}
  /\ last = NoEvent
  /\ arg = NoArg
  /\ res = NoTimer

Next ==
  \/ Ingest
  \/ DispatcherEffect
  \/ TimerFires
  \/ Block
  \/ StartAudioClick
  \/ ResumeSettles
  \/ RenderEffect
  \/ Frame

Spec == Init /\ [][Next]_vars

\* ------------------------------------------------- a backlog at the hard cap
\* The state after the mount effect's tick (and, with audio started in a running
\* context, the restarted dispatcher's tick) and a burst of n deliveries that no
\* tick interleaved.
BacklogLens == {QUEUE_CAP - 1, QUEUE_CAP}

BacklogTx(i) ==
  [id |-> i, value |-> IF i % 2 = 0 THEN SATS_PER_BTC ELSE SATS_PER_BTC - 1,
   feeRate |-> << 5, 1 >>]

InitBacklog ==
  /\ \E n \in BacklogLens :
       /\ txQueue = [i \in 1..n |-> BacklogTx(i)]
       /\ arrived = n
  /\ isAudioStarted \in BOOLEAN
  /\ cbStarted = isAudioStarted
  /\ timers = {[id |-> 1, started |-> isAudioStarted]}
  /\ timeoutId = 1
  /\ blockHeight = 0
  /\ unmounted = FALSE
  /\ rafs = {}
  /\ animationFrameId = 0
  /\ effHeight = 0
  /\ ctx = IF isAudioStarted THEN "running" ELSE "none"
  /\ masterGain = isAudioStarted
  /\ isShakerStarted = isAudioStarted
  /\ ctxCount = IF isAudioStarted THEN 1 ELSE 0
  /\ inits = {}
  /\ chimes = 0
  /\ ws = 0
  /\ sockets = {}
  /\ reconnectTimeout = 0
  /\ reconnects = {}
  /\ status = "none"
  /\ socketLife = "none"
  /\ connects = 0
  /\ ticks = IF isAudioStarted THEN 2 ELSE 1
  /\ beatIndex = ticks
  /\ timeoutRef = StepDuration(0, ticks - 1)
  /\ last = [NoEvent EXCEPT !.op = "tick", !.ctx = ctx, !.beat = ticks - 1]
  /\ bubbles = << >>
  /\ flashAlpha = << 0, 0 >>
  /\ canvas = TRUE
  /\ canvasHeight \in CanvasHeights
  /\ canvasWidth \in CanvasWidths
  /\ mouse = NoMouse
  /\ isOverCanvas = FALSE
  /\ hoveredTx = 0
  /\ frames = 0
  /\ dispatched = << >>
  /\ evicted = {}
  /\ arg = NoArg
  /\ res = NoTimer

IngestBacklog ==
  /\ arrived < QUEUE_CAP + MaxArrivals
  /\ \E tx \in TxInputs : handleNewTransaction(tx)

TimerFiresBacklog ==
  /\ ticks < MaxTicks
  /\ \E t \in timers : \E d \in TickDraws(t.started) :
       /\ d[4] = 0
       /\ processNextTransaction(timers \ {t}, t.started, d[1], d[2], d[3], d[4])

NextBacklog ==
  \/ IngestBacklog
  \/ TimerFiresBacklog

SpecBacklog == InitBacklog /\ [][NextBacklog]_vars

\* ------------------------------------------ the rhythm grid over a full cycle
IngestGrid ==
  /\ timeoutRef # NoTimer
  /\ arrived < 1
  /\ \E tx \in TxInputs : handleNewTransaction(tx)

DispatcherEffectGrid ==
  /\ ~unmounted
  /\ timeoutRef = NoTimer \/ cbStarted # isAudioStarted
  /\ ticks < MaxGridTicks
  /\ \E d \in TickDraws(isAudioStarted) :
       processNextTransaction(ClearTimeout(timers, timeoutId), isAudioStarted,
                              d[1], d[2], d[3], d[4])

TimerFiresGrid ==
  /\ ticks < MaxGridTicks
  /\ \E t \in timers : \E d \in TickDraws(t.started) :
       processNextTransaction(timers \ {t}, t.started, d[1], d[2], d[3], d[4])

NextGrid ==
  \/ IngestGrid
  \/ DispatcherEffectGrid
  \/ TimerFiresGrid
  \/ StartAudioClick
  \/ ResumeSettles

SpecGrid == Init /\ [][NextGrid]_vars

\* ------------------------------------------------ particles late in their life
\* ages (render passes survived) next to the two removal thresholds
AgeSamples == {0, 146, AgedFrames}

RenderValues == {DEFAULT_VALUE, SATS_PER_BTC}

\* a particle k passes after addTransaction pushed it
Aged(b, k) == [b EXCEPT !.y = b.y + k * b.vy, !.life = b.life - k * LIFE_DECAY]

AgeOf(b) == (LIFE_START - b.life) \div LIFE_DECAY

AgedBubbles ==
  { b \in { Aged(NewBubble([id |-> 0, value |-> v, feeRate |-> << 1, 1 >>], u), k) :
              v \in RenderValues, u \in VyRolls, k \in AgeSamples } :
      b.life > 0 /\ b.y + b.radius * 3 >= 0 }

\* The state after AgedFrames passes in which the particles dispatched so far
\* are still live; the earlier a particle was pushed, the older it is.
InitRender ==
  /\ canvas = TRUE
  /\ canvasHeight \in CanvasHeights
  /\ canvasWidth \in CanvasWidths
  /\ mouse = NoMouse
  /\ isOverCanvas = FALSE
  /\ hoveredTx = 0
  /\ \E n \in 0..MaxBubbles :
       /\ bubbles \in { [i \in 1..n |-> [s[i] EXCEPT !.id = i]] :
                          s \in { t \in [1..n -> AgedBubbles] :
                                    \A i \in 1..n : \A j \in 1..n :
                                      i < j => AgeOf(t[i]) >= AgeOf(t[j]) } }
       /\ arrived = n
       /\ dispatched = [i \in 1..n |-> i]
  /\ frames = AgedFrames
  /\ flashAlpha = << 0, 0 >>
  /\ txQueue = << >>
  /\ isAudioStarted = FALSE
  /\ cbStarted = FALSE
  /\ timers = {[id |-> 1, started |-> FALSE]}
  /\ timeoutId = 1
  /\ blockHeight = 0
  /\ unmounted = FALSE
  /\ rafs = {[id |-> 1, cur |-> TRUE]}
  /\ animationFrameId = 1
  /\ effHeight = 0
  /\ ctx = "none"
  /\ masterGain = FALSE
  /\ isShakerStarted = FALSE
  /\ ctxCount = 0
  /\ inits = {}
  /\ chimes = 0
  /\ ws = 0
  /\ sockets = {}
  /\ reconnectTimeout = 0
  /\ reconnects = {}
  /\ status = "none"
  /\ socketLife = "none"
  /\ connects = 0
  /\ ticks = MaxTicks
  /\ beatIndex = ticks % BEATS
  /\ timeoutRef = StepDuration(0, ticks - 1)
  /\ evicted = {}
  /\ last = [NoEvent EXCEPT !.op = "render"]
  /\ arg = NoArg
  /\ res = NoTimer

FrameAged ==
  /\ frames < AgedFrames + MaxFrames
  /\ \E f \in rafs : render(rafs \ {f}, f.cur, NoSway)
  /\ effHeight' = effHeight

NextRender == FrameAged

SpecRender == InitRender /\ [][NextRender]_vars

\* ------------------------------------------------ the pointer over the canvas
\* handleMouseMove: the pointer is at (x, y); over tells whether the event's
\* target is the canvas
handleMouseMove(x, y, over) ==
  /\ mouse' = [x |-> x, y |-> y]
  /\ isOverCanvas' = over
  /\ last' = [NoEvent EXCEPT !.op = "mousemove", !.ctx = ctx]
  /\ UNCHANGED << sockVars, hoveredTx, bubbles, flashAlpha, canvas, canvasHeight, canvasWidth, frames,
                  rafVars, appVars, audioVars, histVars, fnVars >>

\* handleMouseLeave
handleMouseLeave ==
  /\ isOverCanvas' = FALSE
  /\ last' = [NoEvent EXCEPT !.op = "mouseleave", !.ctx = ctx]
  /\ UNCHANGED << sockVars, mouse, hoveredTx, bubbles, flashAlpha, canvas, canvasHeight, canvasWidth,
                  frames, rafVars, appVars, audioVars, histVars, fnVars >>

\* the listeners are registered by the effect and removed by its cleanup
MouseMove ==
  /\ ~unmounted
  /\ animationFrameId # 0
  /\ \E x \in MouseXs : \E y \in MouseYs : \E over \in BOOLEAN : handleMouseMove(x, y, over)

MouseLeave ==
  /\ ~unmounted
  /\ animationFrameId # 0
  /\ handleMouseLeave

FrameHover ==
  /\ frames < AgedFrames + MaxFrames
  /\ \E f \in rafs : \E sway \in [1..Len(bubbles) -> Sways] : render(rafs \ {f}, f.cur, sway)
  /\ effHeight' = effHeight

NextHover == FrameHover \/ MouseMove \/ MouseLeave

SpecHover == InitRender /\ [][NextHover]_vars

\* ------------------------------------------- a render loop that keeps running
FrameFade ==
  /\ \E f \in rafs : render(rafs \ {f}, f.cur, NoSway)
  /\ effHeight' = effHeight

NextFade == FrameFade

\* Every pass requests the next animation frame, and the browser runs a
\* requested frame: a pass is always due and happens.
SpecFade == InitRender /\ [][NextFade]_vars /\ WF_vars(FrameFade)

\* --------------------------------------------------- the flash of a block
\* a session that has been running without a block for a long time
InitFlash ==
  /\ canvas = TRUE
  /\ canvasHeight \in CanvasHeights
  /\ canvasWidth \in CanvasWidths
  /\ mouse = NoMouse
  /\ isOverCanvas = FALSE
  /\ hoveredTx = 0
  /\ bubbles = << >>
  /\ arrived = 0
  /\ dispatched = << >>
  /\ frames = FrameCap
  /\ flashAlpha = << 0, 0 >>
  /\ rafs = {[id |-> 1, cur |-> TRUE]}
  /\ animationFrameId = 1
  /\ effHeight = 0
  /\ blockHeight = 0
  /\ unmounted = FALSE
  /\ txQueue = << >>
  /\ isAudioStarted = FALSE
  /\ cbStarted = FALSE
  /\ timers = {[id |-> 1, started |-> FALSE]}
  /\ timeoutId = 1
  /\ ctx = "none"
  /\ masterGain = FALSE
  /\ isShakerStarted = FALSE
  /\ ctxCount = 0
  /\ inits = {}
  /\ chimes = 0
  /\ ws = 0
  /\ sockets = {}
  /\ reconnectTimeout = 0
  /\ reconnects = {}
  /\ status = "none"
  /\ socketLife = "none"
  /\ connects = 0
  /\ ticks = TickCap
  /\ beatIndex = ticks % BEATS
  /\ timeoutRef = StepDuration(0, ticks - 1)
  /\ evicted = {}
  /\ last = [NoEvent EXCEPT !.op = "render"]
  /\ arg = NoArg
  /\ res = NoTimer

\* the next block, up to a last one
BlockFlash ==
  /\ \E h \in {blockHeight + 1} \cap 1..MaxLoopHeight : handleNewBlock(h)

RenderEffectFlash ==
  /\ effHeight # blockHeight
  /\ render(Stale(CancelAnimationFrame(rafs, animationFrameId)), TRUE, NoSway)
  /\ effHeight' = blockHeight

NextFlash ==
  \/ BlockFlash
  \/ RenderEffectFlash
  \/ FrameFade

\* A requested animation frame is run, and an effect whose dependency has
\* changed is run.
SpecFlash == InitFlash /\ [][NextFlash]_vars /\ WF_vars(RenderEffectFlash \/ FrameFade)

\* ------------------------------------------------------ the step delay alone
InitStep ==
  /\ arg \in [fn : {"none"}, qLen : 0..QUEUE_CAP, beat : 0..(BEATS - 1)]
  /\ res = NoTimer
  /\ txQueue = << >>
  /\ beatIndex = 0
  /\ timeoutRef = NoTimer
  /\ isAudioStarted = FALSE
  /\ cbStarted = FALSE
  /\ timers = {}
  /\ timeoutId = 0
  /\ blockHeight = 0
  /\ unmounted = FALSE
  /\ rafs = {}
  /\ animationFrameId = 0
  /\ effHeight = 0
  /\ ctx = "none"
  /\ masterGain = FALSE
  /\ isShakerStarted = FALSE
  /\ ctxCount = 0
  /\ inits = {}
  /\ chimes = 0
  /\ ws = 0
  /\ sockets = {}
  /\ reconnectTimeout = 0
  /\ reconnects = {}
  /\ status = "none"
  /\ socketLife = "none"
  /\ connects = 0
  /\ bubbles = << >>
  /\ flashAlpha = << 0, 0 >>
  /\ canvas = TRUE
  /\ canvasHeight \in CanvasHeights
  /\ canvasWidth \in CanvasWidths
  /\ mouse = NoMouse
  /\ isOverCanvas = FALSE
  /\ hoveredTx = 0
  /\ frames = 0
  /\ arrived = 0
  /\ ticks = 0
  /\ dispatched = << >>
  /\ evicted = {}
  /\ last = NoEvent

EvalStep ==
  /\ arg.fn = "none"
  /\ arg' = [arg EXCEPT !.fn = "stepDuration"]
  /\ res' = StepDuration(arg.qLen, arg.beat)
  /\ UNCHANGED << sockVars, appVars, audioVars, visVars, histVars, last >>

NextStep == EvalStep

SpecStep == InitStep /\ [][NextStep]_vars

\* ------------------------------------------------- the pure mappings alone
\* the program as constructed, before the mount effects have run
Unmounted ==
  /\ txQueue = << >>
  /\ beatIndex = 0
  /\ timeoutRef = NoTimer
  /\ isAudioStarted = FALSE
  /\ cbStarted = FALSE
  /\ timers = {}
  /\ timeoutId = 0
  /\ blockHeight = 0
  /\ unmounted = FALSE
  /\ rafs = {}
  /\ animationFrameId = 0
  /\ effHeight = 0
  /\ ctx = "none"
  /\ masterGain = FALSE
  /\ isShakerStarted = FALSE
  /\ ctxCount = 0
  /\ inits = {}
  /\ chimes = 0
  /\ ws = 0
  /\ sockets = {}
  /\ reconnectTimeout = 0
  /\ reconnects = {}
  /\ status = "none"
  /\ socketLife = "none"
  /\ connects = 0
  /\ bubbles = << >>
  /\ flashAlpha = << 0, 0 >>
  /\ canvas = TRUE
  /\ canvasHeight \in CanvasHeights
  /\ canvasWidth \in CanvasWidths
  /\ mouse = NoMouse
  /\ isOverCanvas = FALSE
  /\ hoveredTx = 0
  /\ frames = 0
  /\ arrived = 0
  /\ ticks = 0
  /\ dispatched = << >>
  /\ evicted = {}
  /\ last = NoEvent

\* satoshi values on both sides of every tier threshold, and non-positive ones
VoiceValues ==
  { -5, 0, 1, 500000, 999999, 1000000, 9999999, 10000000, 99999999, 100000000, 250000000 }

\* playTransaction in each state of the audio context: after the mount tick,
\* and, once a context exists, after startAudio created it
InitVoice ==
  /\ ctx \in {"none", "suspended", "running"}
  /\ masterGain = (ctx # "none")
  /\ ctxCount = IF ctx = "none" THEN 0 ELSE 1
  /\ inits = IF ctx = "suspended" THEN {1} ELSE {}
  /\ chimes = IF ctx = "running" THEN 1 ELSE 0
  /\ ws = 0
  /\ sockets = {}
  /\ reconnectTimeout = 0
  /\ reconnects = {}
  /\ status = "none"
  /\ socketLife = "none"
  /\ connects = 0
  /\ isShakerStarted = (ctx = "running")
  /\ isAudioStarted = (ctx = "running")
  /\ cbStarted = FALSE
  /\ timers = {[id |-> 1, started |-> FALSE]}
  /\ timeoutId = 1
  /\ blockHeight = 0
  /\ unmounted = FALSE
  /\ rafs = {}
  /\ animationFrameId = 0
  /\ effHeight = 0
  /\ txQueue = << >>
  /\ ticks = 1
  /\ beatIndex = 1
  /\ timeoutRef = StepDuration(0, 0)
  /\ last = [NoEvent EXCEPT !.op = IF ctx = "none" THEN "tick" ELSE "init", !.ctx = ctx,
                            !.voices = IF ctx = "running" THEN PlayStartupChime(ctx) ELSE {}]
  /\ bubbles = << >>
  /\ flashAlpha = << 0, 0 >>
  /\ canvas = TRUE
  /\ canvasHeight \in CanvasHeights
  /\ canvasWidth \in CanvasWidths
  /\ mouse = NoMouse
  /\ isOverCanvas = FALSE
  /\ hoveredTx = 0
  /\ frames = 0
  /\ arrived = 0
  /\ dispatched = << >>
  /\ evicted = {}
  /\ arg \in [fn : {"none"}, valueSats : VoiceValues, beatPos : 0..(BEATS - 1), roll : Rolls]
  /\ res = {}

EvalPlayTransaction ==
  /\ arg.fn = "none"
  /\ arg' = [arg EXCEPT !.fn = "playTransaction"]
  /\ res' = PlayTransaction(arg.valueSats, arg.beatPos, arg.roll)
  /\ UNCHANGED << sockVars, appVars, audioVars, visVars, histVars, last >>

NextVoice == EvalPlayTransaction

SpecVoice == InitVoice /\ [][NextVoice]_vars

\* fee rates in tenths of a sat/vB, around every band boundary
FeeTenths ==
  { 0, 5, 10, 11, 20, 250, 499, 500, 501, 1000, 1499, 1500, 1501, 2750, 3999, 4000, 4001,
    10000 }

FeeRates == { << n, 10 >> : n \in FeeTenths }

InitHue ==
  /\ Unmounted
  /\ arg \in [fn : {"none"}, a : FeeRates, b : FeeRates]
  /\ res = << >>

EvalHue ==
  /\ arg.fn = "none"
  /\ arg' = [arg EXCEPT !.fn = "getHueFromFeeRate"]
  /\ res' = << getHueFromFeeRate(arg.a), getHueFromFeeRate(arg.b) >>
  /\ UNCHANGED << sockVars, appVars, audioVars, visVars, histVars, last >>

NextHue == EvalHue

SpecHue == InitHue /\ [][NextHue]_vars

\* satoshi values from 0 to beyond the value at which the radius saturates
RadiusValues ==
  { 0, 1, 10000, 500000, 1000000, 10000000, 74999999, 75000000, 99999999, 100000000,
    250000000, 700000000 }

InitRadius ==
  /\ Unmounted
  /\ arg \in [fn : {"none"}, a : RadiusValues, b : RadiusValues]
  /\ res = << >>

\* addTransaction for each of the two values, on an empty particle list
EvalAddTransaction ==
  /\ arg.fn = "none"
  /\ arg' = [arg EXCEPT !.fn = "addTransaction"]
  /\ res' = << AddTransaction(<< >>, [id |-> 1, value |-> arg.a, feeRate |-> << 1, 1 >>], 0),
               AddTransaction(<< >>, [id |-> 2, value |-> arg.b, feeRate |-> << 1, 1 >>], 0) >>
  /\ UNCHANGED << sockVars, appVars, audioVars, visVars, histVars, last >>

NextRadius == EvalAddTransaction

SpecRadius == InitRadius /\ [][NextRadius]_vars

\* ------------------------------------------- partial records from ingestion
\* every combination of a missing, a zero and a positive optional field
AnyTx ==
  [value : {Undefined, 0, 30000}, vsize : {Undefined, 0, 250},
   fee : {Undefined, 0, 500}, feeRate : {Undefined, 0, 5}]

IngestAny ==
  /\ timeoutRef # NoTimer
  /\ arrived < 1
  /\ \E tx \in AnyTx : handleNewTransaction(tx)

NextDefaults ==
  \/ IngestAny
  \/ DispatcherEffect
  \/ TimerFires

SpecDefaults == Init /\ [][NextDefaults]_vars

\* ------------------------------------------ a dispatcher that keeps ticking
MountEffect ==
  /\ timeoutRef = NoTimer
  /\ \E d \in TickDraws(isAudioStarted) :
       /\ d[4] = 0
       /\ processNextTransaction(ClearTimeout(timers, timeoutId), isAudioStarted,
                                 d[1], d[2], d[3], d[4])

\* a timer callback whose trigger fails, or that finds the queue empty
IdleTick ==
  /\ \E t \in timers : \E d \in TickDraws(t.started) :
       /\ d[4] = 0
       /\ processNextTransaction(timers \ {t}, t.started, d[1], d[2], d[3], d[4])
       /\ dispatched' = dispatched

\* a timer callback whose trigger succeeds
PopTick ==
  /\ \E t \in timers : \E d \in TickDraws(t.started) :
       /\ d[4] = 0
       /\ processNextTransaction(timers \ {t}, t.started, d[1], d[2], d[3], d[4])
       /\ dispatched' # dispatched

\* deliveries that carry their value, while the dispatcher runs
IngestLive ==
  /\ timeoutRef # NoTimer
  /\ arrived < MaxArrivals
  /\ \E tx \in { t \in TxInputs : t.value # Undefined } : handleNewTransaction(tx)

NextLive ==
  \/ IngestLive
  \/ MountEffect
  \/ IdleTick
  \/ PopTick

\* The mount effect runs and every callback schedules the next one, so a tick
\* is always due and happens; Math.random() does not fail the trigger forever,
\* so a tick that pops, possible again and again, happens again and again.
SpecLive ==
  /\ Init
  /\ [][NextLive]_vars
  /\ WF_vars(MountEffect \/ IdleTick \/ PopTick)
  /\ SF_vars(PopTick)

\* ------------------------------------- the two loops, restarts and teardown
\* unmounting App: the cleanups of the dispatcher effect and of the socket
\* effect and, in the Visualizer, the cleanup of the render effect
Unmount ==
  /\ ~unmounted
  /\ socketLife = "live"
  /\ timeoutRef # NoTimer
  /\ animationFrameId # 0
  /\ unmounted' = TRUE
  /\ timers' = ClearTimeout(timers, timeoutId)
  /\ rafs' = Stale(CancelAnimationFrame(rafs, animationFrameId))
  /\ disconnect
  /\ last' = [NoEvent EXCEPT !.op = "unmount", !.ctx = ctx]
  /\ UNCHANGED << txQueue, beatIndex, timeoutRef, isAudioStarted, cbStarted, timeoutId,
                  blockHeight, bubbles, flashAlpha, canvas, canvasHeight, canvasWidth,
                  hoverVars, frames, animationFrameId, effHeight, audioVars, histVars,
                  fnVars >>

DispatcherEffectLoops ==
  /\ ~unmounted
  /\ timeoutRef = NoTimer \/ cbStarted # isAudioStarted
  /\ ticks < MaxLoopTicks
  /\ \E d \in TickDraws(isAudioStarted) :
       processNextTransaction(ClearTimeout(timers, timeoutId), isAudioStarted,
                              d[1], d[2], d[3], d[4])

TimerFiresLoops ==
  /\ ticks < MaxLoopTicks
  /\ \E t \in timers : \E d \in TickDraws(t.started) :
       processNextTransaction(timers \ {t}, t.started, d[1], d[2], d[3], d[4])

RenderEffectLoops ==
  /\ ~unmounted
  /\ animationFrameId = 0 \/ effHeight # blockHeight
  /\ frames < MaxLoopFrames
  /\ render(Stale(CancelAnimationFrame(rafs, animationFrameId)), TRUE, NoSway)
  /\ effHeight' = blockHeight

FrameLoops ==
  /\ frames < MaxLoopFrames
  /\ \E f \in rafs : render(rafs \ {f}, f.cur, NoSway)
  /\ effHeight' = effHeight

BlockLoops ==
  /\ ~unmounted
  /\ timeoutRef # NoTimer
  /\ \E h \in {blockHeight, blockHeight + 1} \cap 1..MaxLoopHeight : handleNewBlock(h)

StartAudioLoops ==
  /\ ~unmounted
  /\ StartAudioClick

NextLoops ==
  \/ DispatcherEffectLoops
  \/ TimerFiresLoops
  \/ RenderEffectLoops
  \/ FrameLoops
  \/ BlockLoops
  \/ StartAudioLoops
  \/ ResumeSettles
  \/ SocketEffect
  \/ Unmount

SpecLoops == Init /\ [][NextLoops]_vars

\* ------------------------------------------------- a start control clicked twice
\* The start controls stay on screen until isAudioStarted is set, which
\* startAudio does only after init() has returned.
StartAudioAgain ==
  /\ timeoutRef # NoTimer
  /\ ~isAudioStarted
  /\ ctxCount < MaxStarts
  /\ \E s \in {"suspended", "running"} : startAudio(s)
  /\ UNCHANGED << sockVars, txQueue, beatIndex, timeoutRef, cbStarted, timerVars, shellVars, visVars,
                  histVars, fnVars >>

NextStart ==
  \/ DispatcherEffect
  \/ TimerFires
  \/ Ingest
  \/ Block
  \/ StartAudioAgain
  \/ ResumeSettles

SpecStart == Init /\ [][NextStart]_vars

\* ------------------------------------------------ the ingestion connection
NextSocket ==
  \/ DispatcherEffectLoops
  \/ RenderEffectLoops
  \/ SocketEffect
  \/ ReconnectFires
  \/ SocketOpens
  \/ SocketMessage
  \/ SocketCloses
  \/ Unmount

\* The browser runs a timeout that stays pending.
SpecSocket == Init /\ [][NextSocket]_vars /\ WF_vars(ReconnectFires)

\* ------------------------------------------------------ the pitch mapping alone
\* satoshi values below, at, between and above the bounds of the tiers
PitchValues ==
  { 0, 1, 999, 1000, 1001, 1584, 1585, 10000, 10001, 999999, 1000000, 1165914, 1165915,
    9999999, 10000000, 50000000, 85769590, 99999999, 100000000, 500000000 }

PitchTiers == {"steel", "marimba", "pluck"}

InitPitch ==
  /\ Unmounted
  /\ arg \in [fn : {"none"}, tier : PitchTiers, a : PitchValues, b : PitchValues]
  /\ res = << >>

EvalPitch ==
  /\ arg.fn = "none"
  /\ arg' = [arg EXCEPT !.fn = "getFrequencyFromValue"]
  /\ res' = << getFrequencyFromValue(arg.a, TierBounds(arg.tier)[1], TierBounds(arg.tier)[2]),
               getFrequencyFromValue(arg.b, TierBounds(arg.tier)[1], TierBounds(arg.tier)[2]) >>
  /\ UNCHANGED << sockVars, appVars, audioVars, visVars, histVars, last >>

NextPitch == EvalPitch

SpecPitch == InitPitch /\ [][NextPitch]_vars

\* ------------------------------------------- one swing pair at two backlogs
\* distances between the two queue lengths that are compared
PairGaps == {1, 19, 20}

\* an even beat, a shorter queue length and a longer one
SwingPairArgs ==
  { a \in [fn : {"none"}, beat : {0, BEATS - 2}, qLen : 0..QUEUE_CAP, qMore : 0..QUEUE_CAP] :
      (a.qMore - a.qLen) \in PairGaps }

InitPair ==
  /\ Unmounted
  /\ arg \in SwingPairArgs
  /\ res = << >>

\* the delays of an even tick and of the odd tick after it, at either length
EvalSwingPair ==
  /\ arg.fn = "none"
  /\ arg' = [arg EXCEPT !.fn = "swingPair"]
  /\ res' = << StepDuration(arg.qLen, arg.beat), StepDuration(arg.qLen, NextBeat(arg.beat)),
               StepDuration(arg.qMore, arg.beat), StepDuration(arg.qMore, NextBeat(arg.beat)) >>
  /\ UNCHANGED << sockVars, appVars, audioVars, visVars, histVars, last >>

NextPair == EvalSwingPair

SpecPair == InitPair /\ [][NextPair]_vars

\* ==================================================================== claims
Range(f) == { f[i] : i \in DOMAIN f }

Pitched == {"whale", "steel", "marimba", "pluck"}

\* the tick that produced `last` popped a transaction
Popped == last.op = "tick" /\ last.popped # 0

\* C1: between callbacks the pending queue never holds more than 5000
\* transactions.
C1_QueueCap == Len(txQueue) <= QUEUE_CAP

\* the overflow trim has acted and a later delivery was appended
C1_Witness == evicted # {} /\ Len(txQueue) > QUEUE_CAP + 1 - QUEUE_TRIM

\* C2 as stated: an insert into a queue of N >= 5000 entries leaves at most
\* N - 500 entries, the 500 oldest gone, the rest in order, the new one last.
C2_Original ==
  [][ (arrived' = arrived + 1 /\ Len(txQueue) >= QUEUE_CAP) =>
        /\ Len(txQueue') <= Len(txQueue) - QUEUE_TRIM
        /\ \A i \in 1..(Len(txQueue') - 1) : txQueue'[i] = txQueue[i + QUEUE_TRIM]
        /\ txQueue'[Len(txQueue')].id = arrived' ]_vars

\* C2 amended: an insert into a queue of N >= 5000 entries leaves exactly
\* N + 1 - 500 entries (4501 for N = 5000): the 500 oldest entries of the
\* previous backlog, and only those, are gone, the remaining entries keep their
\* order, and the inserted entry is the last element.
C2_TrimOldest ==
  [][ (arrived' = arrived + 1 /\ Len(txQueue) >= QUEUE_CAP) =>
        /\ Len(txQueue') = Len(txQueue) + 1 - QUEUE_TRIM
        /\ \A i \in 1..(Len(txQueue') - 1) : txQueue'[i] = txQueue[i + QUEUE_TRIM]
        /\ txQueue'[Len(txQueue')].id = arrived'
        /\ evicted' = evicted \cup { txQueue[i].id : i \in 1..QUEUE_TRIM } ]_vars

\* the state right after the insert that overflowed
C2_Witness ==
  /\ Cardinality(evicted) = QUEUE_TRIM
  /\ Len(txQueue) = QUEUE_CAP + 1 - QUEUE_TRIM
  /\ txQueue[Len(txQueue)].id = arrived

\* C3: a tick pops the oldest queued transaction, so the transactions forwarded
\* to the engines are in arrival order and each is older than all still queued.
C3_Fifo ==
  /\ \A i \in 1..(Len(dispatched) - 1) : dispatched[i] < dispatched[i + 1]
  /\ dispatched # << >> =>
       \A k \in 1..Len(txQueue) : dispatched[Len(dispatched)] < txQueue[k].id

\* two pops, with a delivery in between still queued
C3_Witness ==
  /\ Len(dispatched) >= 2
  /\ txQueue # << >>
  /\ txQueue[Len(txQueue)].id > QUEUE_CAP

\* C4: every transaction handed to handleNewTransaction is in exactly one of
\* the three places: still queued, dispatched (once), evicted by the trim.
C4_ExactlyOnce ==
  /\ Ids(txQueue) \cup Range(dispatched) \cup evicted = 1..arrived
  /\ Len(txQueue) + Len(dispatched) + Cardinality(evicted) = arrived

\* all three places are occupied
C4_Witness == txQueue # << >> /\ Len(dispatched) >= 2 /\ evicted # {}

\* C5 as stated: every popped transaction gets a voice and a particle, whatever
\* the state of the audio engine.
C5_Original ==
  Popped => (last.voices \cap Pitched # {} /\ last.spawned)

\* C5 amended: every popped transaction is handed to both engines; the
\* visualizer spawns a particle for it, and the audio engine produces the voice
\* of its value exactly when the audio context is running (not yet started or
\* suspended, the transaction reaches the particle engine only).
C5_BothEngines ==
  Popped =>
    /\ last.spawned
    /\ \E i \in 1..Len(bubbles) :
         bubbles[i].id = last.popped /\ bubbles[i].value = last.value
    /\ last.ctx = "running" => last.voices \cap Pitched = {Tier(last.value)}
    /\ last.ctx # "running" => last.voices = {}

\* a pop with the audio context running: a voice and a particle
C5_Witness ==
  Popped /\ last.ctx = "running" /\ last.voices \cap Pitched # {} /\ last.spawned

\* C6: beatIndex stays in 0..15 and every tick, whatever it did, advances it by
\* one modulo 16: after t ticks it is t mod 16.
C6_BeatCycle == beatIndex \in 0..(BEATS - 1) /\ beatIndex = ticks % BEATS

\* the grid has wrapped, with a pop and started audio on the way
C6_Witness ==
  ticks = BEATS + 1 /\ beatIndex = 1 /\ dispatched # << >> /\ isAudioStarted

\* C7: for every queue length 0..5000 and every beat index the delay of the
\* next tick is at least 40.
C7_MinStep == arg.fn = "stepDuration" => res[1] >= MIN_STEP * res[2]

\* the floor is what decides: a full queue on an odd beat
C7_Witness ==
  arg.fn = "stepDuration" /\ arg.qLen = QUEUE_CAP /\ arg.beat % 2 = 1 /\ res = << MIN_STEP, 1 >>

\* C8 as stated: playTransaction and playBlockConfirm create no voice unless
\* the context exists and is running.
C8_NoVoiceUnlessRunning ==
  (last.op \in {"tick", "block"} /\ last.ctx # "running") => last.voices = {}

\* C9: after a render pass no live particle has life <= 0 or y + 3 * radius < 0.
C9_LiveSet ==
  \A i \in 1..Len(bubbles) :
    bubbles[i].life > 0 /\ bubbles[i].y + 3 * bubbles[i].radius >= 0

\* one pass removed a particle above the top whose life was positive and a
\* particle whose life ran out
C9_Witness ==
  /\ last.op = "render"
  /\ \E b \in last.removed : b.life > 0 /\ b.y + 3 * b.radius < 0
  /\ \E b \in last.removed : b.life <= 0

\* C10: the particle of a dispatched transaction is a whale iff its value is at
\* least 100,000,000 satoshis, and the voice the audio engine selects for it is
\* the whale voice for exactly those values.
C10_WhaleAgreement ==
  Popped =>
    /\ \E i \in 1..Len(bubbles) : bubbles[i].id = last.popped
    /\ \A i \in 1..Len(bubbles) :
         bubbles[i].id = last.popped =>
           /\ bubbles[i].isWhale <=> last.value >= SATS_PER_BTC
           /\ "whale" \in last.voices => bubbles[i].isWhale
           /\ (last.ctx = "running" /\ bubbles[i].isWhale) => "whale" \in last.voices

\* exactly 1 BTC: a whale particle and the whale voice
C10_Witness ==
  /\ Popped
  /\ last.value = SATS_PER_BTC
  /\ "whale" \in last.voices
  /\ \E i \in 1..Len(bubbles) : bubbles[i].id = last.popped /\ bubbles[i].isWhale

\* C11: with the context running, playTransaction creates exactly one pitched
\* voice for a value > 0 and none for a value <= 0; the voice is the whale for
\* v >= 1 BTC, the steel drum for 0.1 <= v < 1, the marimba for 0.01 <= v < 0.1
\* and the pluck for 0 < v < 0.01.
C11_TierPartition ==
  (arg.fn = "playTransaction" /\ ctx = "running") =>
    LET v == arg.valueSats
        pitched == res \cap Pitched
    IN /\ v <= 0 => pitched = {}
       /\ v > 0 => Cardinality(pitched) = 1
       /\ v >= SATS_PER_BTC => pitched = {"whale"}
       /\ (v >= SATS_PER_BTC \div 10 /\ v < SATS_PER_BTC) => pitched = {"steel"}
       /\ (v >= SATS_PER_BTC \div 100 /\ v < SATS_PER_BTC \div 10) => pitched = {"marimba"}
       /\ (v > 0 /\ v < SATS_PER_BTC \div 100) => pitched = {"pluck"}

\* 0.01 BTC exactly, on a beat without accent: the marimba and nothing else
C11_Witness ==
  /\ arg.fn = "playTransaction"
  /\ ctx = "running"
  /\ arg.valueSats = MARIMBA_SATS
  /\ res = {"marimba"}

\* C12: the hue never rises when the fee rate rises, stays within 0..210, and
\* is 210 at 1 sat/vB, 140 at 50, 45 at 150 and 0 from 400 on.
C12_HueMonotone ==
  arg.fn = "getHueFromFeeRate" =>
    /\ RatLeq(arg.a, arg.b) => RatLeq(res[2], res[1])
    /\ RatLeq(<< 0, 1 >>, res[1])
    /\ RatLeq(res[1], << 210, 1 >>)
    /\ RatEq(arg.a, << 1, 1 >>) => RatEq(res[1], << 210, 1 >>)
    /\ RatEq(arg.a, << 50, 1 >>) => RatEq(res[1], << 140, 1 >>)
    /\ RatEq(arg.a, << 150, 1 >>) => RatEq(res[1], << 45, 1 >>)
    /\ RatLeq(<< 400, 1 >>, arg.a) => RatEq(res[1], << 0, 1 >>)

\* a pair across the bands: 150 sat/vB gives 45, 400.1 sat/vB gives 0
C12_Witness ==
  /\ arg.fn = "getHueFromFeeRate"
  /\ arg.a = << 1500, 10 >>
  /\ arg.b = << 4001, 10 >>
  /\ RatEq(res[1], << 45, 1 >>)
  /\ RatEq(res[2], << 0, 1 >>)

C14_RadiusMonotone ==
  arg.fn = "addTransaction" =>
    /\ Len(res[1]) = 1
    /\ Len(res[2]) = 1
    /\ arg.a <= arg.b => res[1][1].radius <= res[2][1].radius
    /\ res[1][1].radius >= 2000
    /\ res[1][1].radius <= 18000
    /\ arg.a >= 250000000 => res[1][1].radius = 18000

\* a small and a large value: the radius grows and reaches the cap
C14_Witness ==
  /\ arg.fn = "addTransaction"
  /\ arg.a = 10000
  /\ arg.b = 250000000
  /\ res[1][1].radius < res[2][1].radius
  /\ res[2][1].radius = 18000

\* C15 as stated: a value of 0 satoshis spawns a particle of radius 20.
C15_ZeroAtLowerClamp ==
  (arg.fn = "addTransaction" /\ arg.a = 0) =>
    (Len(res[1]) = 1 /\ res[1][1].radius = 2000)

\* C15 amended: a value of 0 satoshis spawns a particle of radius 30, the base
\* of the mapping; the lower clamp of 20 is below every value of sqrt(.) + 30.
C15_ZeroAtBase ==
  (arg.fn = "addTransaction" /\ arg.a = 0) =>
    (Len(res[1]) = 1 /\ res[1][1].radius = 3000)

\* addTransaction has spawned the particle of a value of 0
C15_Witness ==
  /\ arg.fn = "addTransaction"
  /\ arg.a = 0
  /\ Len(res[1]) = 1
  /\ res[1][1].value = 0
  /\ res[1][1].radius > 2000

\* the queue entry the last delivery appended
Entry == txQueue[Len(txQueue)]

\* every particle carries a positive value and a positive fee rate
ForwardedPositive ==
  \A i \in 1..Len(bubbles) :
    /\ bubbles[i].value > 0
    /\ bubbles[i].feeRate[1] > 0
    /\ bubbles[i].feeRate[2] >= 0

\* C16 as stated: every delivered record adds one entry, whose value is the
\* delivered value when present, else vsize * 120 when vsize is present, else
\* 10000, and whose fee rate is the delivered one when present and 1 when none
\* can be derived; every forwarded value and fee rate is positive.
C16_PresentKept ==
  /\ [][ arrived' = arrived + 1 =>
           LET tx == last'.tx
               e == txQueue'[Len(txQueue')]
           IN /\ Len(txQueue') = Len(txQueue) + 1
              /\ e.value = IF tx.value # Undefined THEN tx.value
                           ELSE IF tx.vsize # Undefined THEN tx.vsize * 120 ELSE 10000
              /\ tx.feeRate # Undefined => e.feeRate = << tx.feeRate, 1 >>
              /\ (tx.feeRate = Undefined /\ (tx.fee = Undefined \/ tx.vsize = Undefined))
                   => e.feeRate = << 1, 1 >> ]_vars
  /\ []ForwardedPositive

\* C16 amended: every delivered record adds one entry.  Its value is the
\* delivered value when that is present and not 0, else vsize * 120 when vsize
\* is present and not 0, else 10000.  Its fee rate is the delivered one when
\* that is present and not 0, else fee / vsize when a fee other than 0 is
\* present (NaN without a vsize, Infinity for a vsize of 0), else 1.  Every
\* forwarded value is positive, and every forwarded fee rate is positive, a NaN
\* being forwarded as 1.
C16_Defaults ==
  /\ [][ arrived' = arrived + 1 =>
           LET tx == last'.tx
               e == txQueue'[Len(txQueue')]
               Given(x) == x # Undefined /\ x # 0
           IN /\ Len(txQueue') = Len(txQueue) + 1
              /\ e.value > 0
              /\ e.value = IF Given(tx.value) THEN tx.value
                           ELSE IF Given(tx.vsize) THEN tx.vsize * 120 ELSE 10000
              /\ e.feeRate = IF Given(tx.feeRate) THEN << tx.feeRate, 1 >>
                             ELSE IF ~Given(tx.fee) THEN << 1, 1 >>
                             ELSE IF tx.vsize = Undefined THEN << 0, 0 >>
                             ELSE << tx.fee, tx.vsize >> ]_vars
  /\ []ForwardedPositive

\* a record delivered with value 0 and fee rate 0 has been queued with the
\* defaults
C16_Witness ==
  /\ last.op = "push"
  /\ last.tx.value = 0
  /\ last.tx.vsize = Undefined
  /\ last.tx.feeRate = 0
  /\ Len(txQueue) = 1
  /\ Entry.value = 10000
  /\ Entry.feeRate = << 1, 1 >>

\* C17: a ghost cue is emitted only on a tick that popped nothing, on an even
\* beat; it changes neither the queue nor the particles; and a popped
\* transaction is never played with value 0.
C17_GhostCue ==
  [][ ticks' # ticks =>
        /\ last'.ghost =>
             /\ last'.popped = 0
             /\ beatIndex % 2 = 0
             /\ txQueue' = txQueue
             /\ bubbles' = bubbles
             /\ dispatched' = dispatched
        /\ last'.popped # 0 => (last'.value > 0 /\ ~last'.ghost) ]_vars

\* a ghost cue with the context running and a transaction waiting
C17_Witness ==
  last.op = "tick" /\ last.ghost /\ last.ctx = "running" /\ txQueue # << >>

C19_EmptyState ==
  [][ /\ (ticks' # ticks /\ txQueue = << >>) =>
           /\ txQueue' = << >>
           /\ dispatched' = dispatched
           /\ bubbles' = bubbles
           /\ last'.popped = 0
           /\ ~last'.spawned
           /\ beatIndex' = (beatIndex + 1) % 16
           /\ timeoutRef' # NoTimer
      /\ (frames' # frames /\ bubbles = << >>) => bubbles' = << >> ]_vars

\* two ticks and a render pass with nothing ever delivered
C19_Witness ==
  /\ arrived = 0
  /\ ticks >= 2
  /\ beatIndex = ticks
  /\ frames >= 1
  /\ txQueue = << >>
  /\ bubbles = << >>

\* C20: with the dispatcher ticking on, a trigger that does not fail forever and
\* deliveries that stop, the queue ends empty, and every queued transaction is
\* eventually dispatched or evicted.
C20_Drains ==
  <>[](txQueue = << >> /\ Range(dispatched) \cup evicted = 1..arrived)

\* everything delivered has been dispatched
C20_Witness ==
  arrived >= 2 /\ txQueue = << >> /\ Len(dispatched) = arrived

\* exact sums of delays, kept in lowest terms
RECURSIVE GCD(_, _)
GCD(a, b) == IF b = 0 THEN a ELSE GCD(b, a % b)

RatNorm(r) == LET g == GCD(r[1], r[2]) IN << r[1] \div g, r[2] \div g >>

RatAdd(a, b) ==
  LET x == RatNorm(a)
      y == RatNorm(b)
  IN RatNorm(<< x[1] * y[2] + y[1] * x[2], x[2] * y[2] >>)

\* the length of the swing pair at the shorter and at the longer queue
PairShort == RatAdd(res[1], res[2])

PairLong == RatAdd(res[3], res[4])

SameSwing == (arg.qLen > BUSY_QLEN) = (arg.qMore > BUSY_QLEN)

\* C21 as stated: the swing pair (even step plus odd step, after the floor) of
\* a longer queue is never longer than that of a shorter queue.
C21_Original == arg.fn = "swingPair" => RatLeq(PairLong, PairShort)

\* C21: the swing pair is non-increasing in the queue length on either side of
\* the swing switch (both lengths at most 100, or both above 100), and is never
\* longer than the 400 of an empty queue; across the switch it may grow.
C21_PairPerSwing ==
  arg.fn = "swingPair" =>
    /\ SameSwing => RatLeq(PairLong, PairShort)
    /\ RatLeq(PairLong, << 2 * BASE_INTERVAL, 1 >>)
    /\ RatLeq(PairShort, << 2 * BASE_INTERVAL, 1 >>)

\* across the switch: 240 at a queue of 100, more than 255 at a queue of 101
C21_Witness ==
  /\ arg.fn = "swingPair" /\ arg.qLen = BUSY_QLEN /\ arg.qMore = BUSY_QLEN + 1
  /\ PairShort = << 240, 1 >>
  /\ RatLeq(<< 255, 1 >>, PairLong)
  /\ res[4] = << MIN_STEP, 1 >>

\* C22: the dispatcher never has two timeouts pending and the render loop never
\* two animation frames, across the restarts caused by isAudioStarted and by
\* blockHeight as well; after the unmount nothing is pending, and no tick and
\* no render pass happens any more.
C22_OnePending ==
  /\ [](/\ Cardinality(timers) <= 1
        /\ Cardinality(rafs) <= 1
        /\ unmounted => (timers = {} /\ rafs = {}))
  /\ [][unmounted => (ticks' = ticks /\ frames' = frames)]_vars

\* unmounted after both loops were restarted while a callback was pending
C22_Witness ==
  /\ unmounted
  /\ isAudioStarted /\ cbStarted
  /\ blockHeight = MaxLoopHeight /\ effHeight = blockHeight
  /\ ticks = MaxLoopTicks
  /\ frames = MaxLoopFrames

\* the particles of a list after one update each, in order
Updated(bs) == [i \in 1..Len(bs) |-> Moved(bs[i])]

Survives(b) == ~IsGone(b)

\* C23: a render pass updates every particle that is live at its start exactly
\* once (one drift step, one decrement of life) and tests it for removal once:
\* the list after the pass is the list of the updated particles that pass the
\* test, in their order, however many are removed in that pass.
C23_OncePerPass ==
  [][frames' # frames => bubbles' = SelectSeq(Updated(bubbles), Survives)]_vars

\* a pass that removed the older particle and kept the younger one, updated
C23_Witness ==
  /\ last.op = "render"
  /\ last.removed # {}
  /\ Len(bubbles) = 1
  /\ bubbles[1].id = 2
  /\ AgeOf(bubbles[1]) = MaxFrames

\* C24: a particle's life starts at 1 and every render pass lowers it by the
\* same 0.0007, nothing raises it; a live particle has survived at most 1428
\* passes, so it is removed by its 1429th pass at the latest, and with the
\* render loop running and no further dispatch the live set ends empty.
C24_BoundedLife ==
  /\ [](\A i \in 1..Len(bubbles) :
          /\ bubbles[i].life > 0
          /\ bubbles[i].life = LIFE_START - AgeOf(bubbles[i]) * LIFE_DECAY
          /\ AgeOf(bubbles[i]) <= 1428)
  /\ [][\A i \in 1..Len(bubbles') : \E j \in 1..Len(bubbles) :
           /\ bubbles[j].id = bubbles'[i].id
           /\ bubbles'[i].life = bubbles[j].life - LIFE_DECAY]_vars
  /\ <>[](bubbles = << >>)

\* a whale that has survived 1428 passes, still live before its last pass
C24_Witness ==
  /\ last.op = "render"
  /\ Len(bubbles) = 1
  /\ bubbles[1].isWhale
  /\ AgeOf(bubbles[1]) = 1428
  /\ bubbles[1].life = 4

\* C25 as stated: the flash intensity lies in [0, 1] in every state.
C25_Original ==
  /\ flashAlpha[1] \in 0..FLASH_FULL
  /\ flashAlpha[1] = 0 => flashAlpha[2] >= 0
  /\ flashAlpha[1] = FLASH_FULL => flashAlpha[2] <= 0

\* C25 amended: flashBlock sets the flash to 1.0; a render pass lowers a
\* positive flash by 0.008 (rounded to a double) and leaves any other flash
\* alone; the flash stays within 2^-40 of [0, 1]; with no further block it ends
\* non-positive and unchanged: at 0 if no block ever arrived, else below 0 (at
\* -480 * 2^-59, about -8.3e-16), the result of 125 rounded decrements of 1.0.
C25_FlashDecay ==
  /\ [](/\ flashAlpha[1] \in 0..FLASH_FULL
        /\ flashAlpha[2] > -(2 ^ 19) /\ flashAlpha[2] < 2 ^ 19)
  /\ [][blockHeight' # blockHeight => flashAlpha' = << FLASH_FULL, 0 >>]_vars
  /\ [][blockHeight' = blockHeight =>
          IF FlashPositive(flashAlpha)
          THEN flashAlpha'[1] = flashAlpha[1] - FLASH_DECAY
          ELSE flashAlpha' = flashAlpha]_vars
  /\ <>[](/\ ~FlashPositive(flashAlpha)
          /\ flashAlpha = IF blockHeight = 0 THEN << 0, 0 >> ELSE << 0, -60000 >>)

\* the flash of the last block has decayed: 125 decrements have left -480 * 2^-59
C25_Witness ==
  /\ blockHeight = MaxLoopHeight
  /\ last.op = "render"
  /\ flashAlpha = << 0, -60000 >>

\* C26 as stated: after a render pass the hovered transaction is null when
\* the pointer is not over the canvas, otherwise it is the oldest particle
\* whose centre lies within its radius of the pointer, and that particle is in
\* the live set the pass leaves.
PassedParticles == Range(bubbles') \cup last'.removed

HoverCandidates == { b \in PassedParticles : UnderPointer(b, mouse) }

OldestUnderPointer ==
  IF isOverCanvas /\ HoverCandidates # {}
  THEN CHOOSE id \in { b.id : b \in HoverCandidates } : \A b \in HoverCandidates : id <= b.id
  ELSE 0

C26_Original ==
  [][frames' # frames =>
       /\ hoveredTx' = OldestUnderPointer
       /\ hoveredTx' # 0 => hoveredTx' \in Ids(bubbles')]_vars

\* C26: after a render pass the hovered transaction is null when the pointer
\* is not over the canvas or no particle is under it; otherwise it is the
\* oldest of the particles the pass updated whose centre, after the update,
\* lies within its radius of the pointer.  It was live when the pass started
\* and may be a particle this very pass removed.
C26_HoverOldest ==
  [][frames' # frames =>
       /\ hoveredTx' = OldestUnderPointer
       /\ ~isOverCanvas => hoveredTx' = 0
       /\ hoveredTx' # 0 => hoveredTx' \in Ids(bubbles)]_vars

\* a pass has hovered the older of two particles under the pointer
C26_Witness ==
  /\ last.op = "render"
  /\ Len(bubbles) = 2
  /\ hoveredTx = bubbles[1].id
  /\ UnderPointer(bubbles[2], mouse)

\* a pass has hovered a particle it removed
C26_Removed ==
  /\ last.op = "render"
  /\ hoveredTx # 0
  /\ hoveredTx \notin Ids(bubbles)
  /\ hoveredTx \in { b.id : b \in last.removed }

\* C27 as stated: within a tier getFrequencyFromValue returns a note of the
\* 16-note scale for every value, a higher value never maps to a lower pitch
\* than a lower value does, the tier's high bound maps to the top of the pitch
\* range and its low bound to the bottom.
PitchEvaluated == arg.fn = "getFrequencyFromValue"

C27_HigherValueHigherPitch ==
  PitchEvaluated =>
    /\ res[1] \in Range(DRUM_FREQUENCIES)
    /\ arg.a <= arg.b => res[1] <= res[2]
    /\ arg.a = TierBounds(arg.tier)[2] => res[1] = DRUM_FREQUENCIES[Len(DRUM_FREQUENCIES)]
    /\ arg.a = TierBounds(arg.tier)[1] => res[1] = DRUM_FREQUENCIES[1]

\* what getFrequencyFromValue does: always a note of the scale, a higher
\* value never a higher pitch, the high bound at the bottom of the pitch range
\* and the low bound at the top
C27_HigherValueLowerPitch ==
  PitchEvaluated =>
    /\ res[1] \in Range(DRUM_FREQUENCIES)
    /\ arg.a <= arg.b => res[1] >= res[2]
    /\ arg.a >= TierBounds(arg.tier)[2] => res[1] = DRUM_FREQUENCIES[1]
    /\ arg.a <= TierBounds(arg.tier)[1] => res[1] = DRUM_FREQUENCIES[Len(DRUM_FREQUENCIES)]

\* a higher value of the steel-drum tier has been given a lower note
C27_Inverted ==
  /\ PitchEvaluated
  /\ arg.tier = "steel"
  /\ arg.a = 50000000 /\ arg.b = 99999999
  /\ res[1] > res[2]

\* C28 as stated: over a whole session init creates the output context at
\* most once and plays the startup chime at most once, however many times it
\* is invoked, a second invocation before the first one's resume settled
\* included.
C28_InitOnce == ctxCount <= 1 /\ chimes <= 1

\* two invocations of init have each created a context and played the chime
C28_Twice == ctxCount = 2 /\ chimes = 2 /\ inits = {}

\* C29: disconnect is final.  Once it has returned no reconnect timeout is
\* pending, this.ws is null, the last status reported is 'disconnected',
\* connect() is not invoked again and no WebSocket is opened, whatever close
\* and error events of the old connection arrive afterwards.
SocketIds == { c.id : c \in sockets }

C29_DisconnectFinal ==
  /\ [](socketLife = "disconnected" =>
          /\ reconnectTimeout = 0 /\ reconnects = {}
          /\ ws = 0
          /\ status = "disconnected"
          /\ last.op \notin {"connect", "throw", "open"})
  /\ [][socketLife = "disconnected" =>
          /\ connects' = connects
          /\ SocketIds' \subseteq SocketIds]_vars

\* the failed old connection has been closed after disconnect() returned
C29_Witness ==
  /\ socketLife = "disconnected"
  /\ last.op = "close"
  /\ sockets = {}
  /\ connects >= 2

\* C30 as stated: while the socket is not disconnected every close and every
\* failed open reports 'disconnected' and leaves exactly one reconnect timeout
\* pending; never more than one timeout is pending, never more than one
\* WebSocket is live, and a new connect() eventually follows each close.
OneReconnect == reconnectTimeout # 0 /\ reconnects = {[id |-> reconnectTimeout]}

Connected == last.op \in {"connect", "throw"}

C30_Original ==
  /\ [](socketLife = "live" /\ last.op \in {"close", "throw"} =>
          status = "disconnected" /\ OneReconnect)
  /\ [](Cardinality(reconnects) <= 1 /\ Cardinality(sockets) <= 1)
  /\ ((socketLife = "live" /\ last.op = "close") ~> (Connected \/ socketLife # "live"))

\* C30: while the socket is not disconnected every close reports
\* 'disconnected' and leaves exactly one reconnect timeout pending; a
\* WebSocket constructor that throws leaves exactly one reconnect timeout
\* pending too, but the status stays 'connecting'.  Never more than one
\* timeout is pending, never more than one WebSocket is live, and a new
\* connect() eventually follows each close unless the caller disconnects.
C30_Reconnects ==
  /\ [](socketLife = "live" /\ last.op = "close" => status = "disconnected" /\ OneReconnect)
  /\ [](socketLife = "live" /\ last.op = "throw" => status = "connecting" /\ OneReconnect)
  /\ [](Cardinality(reconnects) <= 1 /\ Cardinality(sockets) <= 1)
  /\ ((socketLife = "live" /\ last.op = "close") ~> (Connected \/ socketLife # "live"))

\* a connection made by a reconnect has been closed in its turn and the next
\* reconnect is pending
C30_Witness ==
  /\ socketLife = "live"
  /\ last.op = "close"
  /\ connects >= 2
  /\ OneReconnect

====
